---- MODULE Spec2Model ----
(***************************************************************************)
(* Model of mprofile's Snapshot statistics engine (mprofile/__init__.py):  *)
(* Frame / Traceback / Trace values, Filter matching, Snapshot.filter_     *)
(* traces, Snapshot._group_by with the sampling correction, Snapshot.      *)
(* statistics and Snapshot.compare_to.                                     *)
(*                                                                         *)
(* Python strings are sequences of one-character strings, so that          *)
(* normalisation, glob matching and ordering are computed character by     *)
(* character.  A raw frame is the tuple <<name, filename, firstlineno,     *)
(* lineno>>, a raw traceback is a tuple of raw frames, a raw trace is      *)
(* <<size, raw traceback>>.  A call that can raise returns either          *)
(* Return(v) or Raise(exception name).                                     *)
(***************************************************************************)
EXTENDS Integers, Sequences, FiniteSets

VARIABLES snapshots, call, result

vars == <<snapshots, call, result>>

(***************************************************************************)
(* Bounds of the explored inputs.                                          *)
(***************************************************************************)
MaxTraces == 2

MaxDepth == 2

MaxFilters == 2

(***************************************************************************)
(* Outcomes of a Python call.                                              *)
(***************************************************************************)
Return(v) == [raised |-> FALSE, value |-> v]

Raise(e) == [raised |-> TRUE, exc |-> e]

(***************************************************************************)
(* Strings.                                                                *)
(***************************************************************************)
Ord(c) ==
  CASE c = "*" -> 42 [] c = "." -> 46 [] c = "?" -> 63
    [] c = "a" -> 97 [] c = "b" -> 98 [] c = "c" -> 99
    [] c = "f" -> 102 [] c = "g" -> 103 [] c = "h" -> 104
    [] c = "o" -> 111 [] c = "p" -> 112 [] c = "y" -> 121

RECURSIVE StrCmp(_, _)
StrCmp(a, b) ==
  IF a = <<>> /\ b = <<>> THEN 0
  ELSE IF a = <<>> THEN -1
  ELSE IF b = <<>> THEN 1
  ELSE IF Ord(Head(a)) < Ord(Head(b)) THEN -1
  ELSE IF Ord(Head(a)) > Ord(Head(b)) THEN 1
  ELSE StrCmp(Tail(a), Tail(b))

IntCmp(a, b) == IF a < b THEN -1 ELSE IF a > b THEN 1 ELSE 0

endswith(s, suffix) ==
  /\ Len(s) >= Len(suffix)
  /\ SubSeq(s, Len(s) - Len(suffix) + 1, Len(s)) = suffix

\* os.path.normcase is the identity on POSIX, the platform modelled here.
_normalize_filename(filename) ==
  IF endswith(filename, <<".", "p", "y", "c">>)
     \/ endswith(filename, <<".", "p", "y", "o">>)
  THEN SubSeq(filename, 1, Len(filename) - 1)
  ELSE filename

\* fnmatch.fnmatch for patterns made of literal characters, "*" and "?"
\* (no pattern explored here holds a "[" class).
RECURSIVE fnmatch(_, _)
fnmatch(name, pat) ==
  IF pat = <<>> THEN name = <<>>
  ELSE IF Head(pat) = "*"
       THEN \/ fnmatch(name, Tail(pat))
            \/ (name # <<>> /\ fnmatch(Tail(name), pat))
  ELSE IF name = <<>> THEN FALSE
  ELSE IF Head(pat) = "?" THEN fnmatch(Tail(name), Tail(pat))
  ELSE Head(pat) = Head(name) /\ fnmatch(Tail(name), Tail(pat))

(***************************************************************************)
(* Frame and Traceback.                                                    *)
(***************************************************************************)
FrameCmp(f, g) ==
  IF StrCmp(f[1], g[1]) # 0 THEN StrCmp(f[1], g[1])
  ELSE IF StrCmp(f[2], g[2]) # 0 THEN StrCmp(f[2], g[2])
  ELSE IF IntCmp(f[3], g[3]) # 0 THEN IntCmp(f[3], g[3])
  ELSE IntCmp(f[4], g[4])

RECURSIVE FramesCmp(_, _)
FramesCmp(a, b) ==
  IF a = <<>> /\ b = <<>> THEN 0
  ELSE IF a = <<>> THEN -1
  ELSE IF b = <<>> THEN 1
  ELSE IF FrameCmp(Head(a), Head(b)) # 0 THEN FrameCmp(Head(a), Head(b))
  ELSE FramesCmp(Tail(a), Tail(b))

reversed(s) == [i \in 1..Len(s) |-> s[Len(s) + 1 - i]]

Traceback(frames) == reversed(frames)

(***************************************************************************)
(* Statistic, StatisticDiff and their sort keys.                           *)
(***************************************************************************)
Statistic(traceback, size, count) ==
  [traceback |-> traceback, size |-> size, count |-> count]

StatisticDiff(traceback, size, size_diff, count, count_diff) ==
  [traceback |-> traceback, size |-> size, size_diff |-> size_diff,
   count |-> count, count_diff |-> count_diff]

abs(n) == IF n < 0 THEN -n ELSE n

Statistic_sort_key(stat) ==
  [nums |-> <<stat.size, stat.count>>, traceback |-> stat.traceback]

StatisticDiff_sort_key(stat) ==
  [nums |-> <<abs(stat.size_diff), stat.size, abs(stat.count_diff),
              stat.count>>,
   traceback |-> stat.traceback]

RECURSIVE NumsCmp(_, _)
NumsCmp(a, b) ==
  IF a = <<>> THEN 0
  ELSE IF Head(a) # Head(b) THEN IntCmp(Head(a), Head(b))
  ELSE NumsCmp(Tail(a), Tail(b))

KeyLess(k1, k2) ==
  \/ NumsCmp(k1.nums, k2.nums) < 0
  \/ NumsCmp(k1.nums, k2.nums) = 0 /\ FramesCmp(k1.traceback, k2.traceback) < 0

RECURSIVE InsertDesc(_, _)
InsertDesc(x, sorted) ==
  IF sorted = <<>> THEN <<x>>
  ELSE IF KeyLess(Head(sorted).key, x.key) THEN <<x>> \o sorted
  ELSE <<Head(sorted)>> \o InsertDesc(x, Tail(sorted))

RECURSIVE SortDesc(_, _)
SortDesc(keyed, sorted) ==
  IF keyed = <<>> THEN sorted
  ELSE SortDesc(Tail(keyed), InsertDesc(Head(keyed), sorted))

sort_statistics(stats) ==
  LET keyed == [i \in 1..Len(stats) |->
                  [key |-> Statistic_sort_key(stats[i]), item |-> stats[i]]]
      sorted == SortDesc(keyed, <<>>)
  IN [i \in 1..Len(sorted) |-> sorted[i].item]

sort_statistic_diffs(stats) ==
  LET keyed == [i \in 1..Len(stats) |->
                  [key |-> StatisticDiff_sort_key(stats[i]), item |-> stats[i]]]
      sorted == SortDesc(keyed, <<>>)
  IN [i \in 1..Len(sorted) |-> sorted[i].item]

(***************************************************************************)
(* _compare_grouped_stats.  A dict is the sequence of its entries          *)
(* [key, stat] in insertion order.                                         *)
(***************************************************************************)
dict_get(d, k) == { i \in 1..Len(d) : d[i].key = k }

dict_pop(d, k) == SelectSeq(d, LAMBDA e : e.key # k)

RECURSIVE compare_new_keys(_, _, _)
compare_new_keys(old_group, new_group, statistics) ==
  IF new_group = <<>> THEN [old_group |-> old_group, statistics |-> statistics]
  ELSE LET traceback == Head(new_group).key
           stat == Head(new_group).stat
           found == dict_get(old_group, traceback)
       IN IF found # {}
          THEN LET previous == old_group[CHOOSE i \in found : TRUE].stat
               IN compare_new_keys(
                    dict_pop(old_group, traceback), Tail(new_group),
                    Append(statistics,
                           StatisticDiff(traceback, stat.size,
                                         stat.size - previous.size, stat.count,
                                         stat.count - previous.count)))
          ELSE compare_new_keys(
                 old_group, Tail(new_group),
                 Append(statistics,
                        StatisticDiff(traceback, stat.size, stat.size,
                                      stat.count, stat.count)))

_compare_grouped_stats(old_group, new_group) ==
  LET after == compare_new_keys(old_group, new_group, <<>>)
  IN after.statistics
     \o [i \in 1..Len(after.old_group) |->
           StatisticDiff(after.old_group[i].key, 0,
                         -after.old_group[i].stat.size, 0,
                         -after.old_group[i].stat.count)]

(***************************************************************************)
(* Filter.  lineno is <<>> for None and <<n>> for the line number n.       *)
(***************************************************************************)
Filter(inclusive, filename_pattern, lineno, all_frames) ==
  [inclusive |-> inclusive,
   _filename_pattern |-> _normalize_filename(filename_pattern),
   lineno |-> lineno,
   all_frames |-> all_frames]

__match_frame(self, filename, lineno) ==
  IF ~fnmatch(_normalize_filename(filename), self._filename_pattern)
  THEN FALSE
  ELSE IF self.lineno = <<>> THEN TRUE
  ELSE lineno = self.lineno[1]

_match_frame(self, filename, lineno) ==
  __match_frame(self, filename, lineno) # (~self.inclusive)

_match_traceback(self, traceback) ==
  IF self.all_frames
  THEN IF \E i \in 1..Len(traceback) :
            __match_frame(self, traceback[i][2], traceback[i][4])
       THEN Return(self.inclusive)
       ELSE Return(~self.inclusive)
  ELSE IF traceback = <<>> THEN Raise("IndexError")
  ELSE Return(_match_frame(self, traceback[1][2], traceback[1][4]))

(***************************************************************************)
(* Snapshot.                                                               *)
(***************************************************************************)
Snapshot(traces, traceback_limit, sample_rate) ==
  [traces |-> traces, traceback_limit |-> traceback_limit,
   sample_rate |-> sample_rate]

\* any(f._match_traceback(traceback) for f in include_filters)
RECURSIVE any_match(_, _)
any_match(include_filters, traceback) ==
  IF include_filters = <<>> THEN Return(FALSE)
  ELSE LET r == _match_traceback(Head(include_filters), traceback)
       IN IF r.raised THEN r
          ELSE IF r.value THEN Return(TRUE)
          ELSE any_match(Tail(include_filters), traceback)

\* any(not f._match_traceback(traceback) for f in exclude_filters)
RECURSIVE any_not_match(_, _)
any_not_match(exclude_filters, traceback) ==
  IF exclude_filters = <<>> THEN Return(FALSE)
  ELSE LET r == _match_traceback(Head(exclude_filters), traceback)
       IN IF r.raised THEN r
          ELSE IF ~r.value THEN Return(TRUE)
          ELSE any_not_match(Tail(exclude_filters), traceback)

_filter_trace(include_filters, exclude_filters, trace) ==
  LET traceback == trace[2]
      inc == IF include_filters # <<>>
             THEN any_match(include_filters, traceback)
             ELSE Return(TRUE)
  IN IF inc.raised THEN inc
     ELSE IF ~inc.value THEN Return(FALSE)
     ELSE IF exclude_filters # <<>>
          THEN LET exc == any_not_match(exclude_filters, traceback)
               IN IF exc.raised THEN exc
                  ELSE IF exc.value THEN Return(FALSE)
                  ELSE Return(TRUE)
          ELSE Return(TRUE)

\* [trace for trace in traces if self._filter_trace(include, exclude, trace)]
RECURSIVE filter_list(_, _, _, _)
filter_list(include_filters, exclude_filters, traces, new_traces) ==
  IF traces = <<>> THEN Return(new_traces)
  ELSE LET keep == _filter_trace(include_filters, exclude_filters, Head(traces))
       IN IF keep.raised THEN keep
          ELSE filter_list(include_filters, exclude_filters, Tail(traces),
                           IF keep.value THEN Append(new_traces, Head(traces))
                           ELSE new_traces)

(* filter_traces as it would be if it filtered the receiver in place       *)
(* (self.traces replaced by the filtered list) besides returning the new   *)
(* Snapshot; C9_SnapshotsNeverMutated tells the two apart.                 *)
filter_traces_in_place(heap, self, filters) ==
  IF filters.type # "list"
  THEN [heap |-> heap, ret |-> Raise("TypeError")]
  ELSE LET include_filters == SelectSeq(filters.items, LAMBDA f : f.inclusive)
           exclude_filters == SelectSeq(filters.items, LAMBDA f : ~f.inclusive)
           new_traces == IF filters.items # <<>>
                         THEN filter_list(include_filters, exclude_filters,
                                          heap[self].traces, <<>>)
                         ELSE Return(heap[self].traces)
       IN IF new_traces.raised THEN [heap |-> heap, ret |-> new_traces]
          ELSE [heap |-> [heap EXCEPT ![self].traces = new_traces.value],
                ret |-> Return(Snapshot(new_traces.value,
                                        heap[self].traceback_limit,
                                        heap[self].sample_rate))]

(* filters is [type, items]: a list of Filter, or a value of a type that   *)
(* is not Iterable.  heap is the sequence of the Snapshot objects that      *)
(* exist, self the index of the receiver; the outcome is the heap after    *)
(* the call and what the call returns or raises.                           *)
filter_traces(heap, self, filters) ==
  IF filters.type # "list"
  THEN [heap |-> heap, ret |-> Raise("TypeError")]
  ELSE IF filters.items # <<>>
  THEN LET include_filters == SelectSeq(filters.items, LAMBDA f : f.inclusive)
           exclude_filters == SelectSeq(filters.items, LAMBDA f : ~f.inclusive)
           new_traces == filter_list(include_filters, exclude_filters,
                                     heap[self].traces, <<>>)
       IN [heap |-> heap,
           ret |-> IF new_traces.raised THEN new_traces
                   ELSE Return(Snapshot(new_traces.value,
                                        heap[self].traceback_limit,
                                        heap[self].sample_rate))]
  ELSE [heap |-> heap,
        ret |-> Return(Snapshot(heap[self].traces, heap[self].traceback_limit,
                                heap[self].sample_rate))]

(***************************************************************************)
(* Sampling correction.  ScaleTable[sample_rate][count][size] tabulates    *)
(* <<int(scale * size), int(scale * count)>> with                          *)
(* scale = 1.0 / (1.0 - math.exp(-(float(size) / count) / sample_rate)),   *)
(* evaluated in IEEE double arithmetic as the source does, for count in    *)
(* 1..12 and size in 1..36.                                                *)
(***************************************************************************)
ScaleTable ==
  [sample_rate \in {2} |->
   <<
     << <<2, 2>>, <<3, 1>>, <<3, 1>>, <<4, 1>>, <<5, 1>>, <<6, 1>>,
        <<7, 1>>, <<8, 1>>, <<9, 1>>, <<10, 1>>, <<11, 1>>, <<12, 1>>,
        <<13, 1>>, <<14, 1>>, <<15, 1>>, <<16, 1>>, <<17, 1>>, <<18, 1>>,
        <<19, 1>>, <<20, 1>>, <<21, 1>>, <<22, 1>>, <<23, 1>>, <<24, 1>>,
        <<25, 1>>, <<26, 1>>, <<27, 1>>, <<28, 1>>, <<29, 1>>, <<30, 1>>,
        <<31, 1>>, <<32, 1>>, <<33, 1>>, <<34, 1>>, <<35, 1>>, <<36, 1>> >>,
     << <<4, 9>>, <<5, 5>>, <<5, 3>>, <<6, 3>>, <<7, 2>>, <<7, 2>>,
        <<8, 2>>, <<9, 2>>, <<10, 2>>, <<10, 2>>, <<11, 2>>, <<12, 2>>,
        <<13, 2>>, <<14, 2>>, <<15, 2>>, <<16, 2>>, <<17, 2>>, <<18, 2>>,
        <<19, 2>>, <<20, 2>>, <<21, 2>>, <<22, 2>>, <<23, 2>>, <<24, 2>>,
        <<25, 2>>, <<26, 2>>, <<27, 2>>, <<28, 2>>, <<29, 2>>, <<30, 2>>,
        <<31, 2>>, <<32, 2>>, <<33, 2>>, <<34, 2>>, <<35, 2>>, <<36, 2>> >>,
     << <<6, 19>>, <<7, 10>>, <<7, 7>>, <<8, 6>>, <<8, 5>>, <<9, 4>>,
        <<10, 4>>, <<10, 4>>, <<11, 3>>, <<12, 3>>, <<13, 3>>, <<13, 3>>,
        <<14, 3>>, <<15, 3>>, <<16, 3>>, <<17, 3>>, <<18, 3>>, <<18, 3>>,
        <<19, 3>>, <<20, 3>>, <<21, 3>>, <<22, 3>>, <<23, 3>>, <<24, 3>>,
        <<25, 3>>, <<26, 3>>, <<27, 3>>, <<28, 3>>, <<29, 3>>, <<30, 3>>,
        <<31, 3>>, <<32, 3>>, <<33, 3>>, <<34, 3>>, <<35, 3>>, <<36, 3>> >>,
     << <<8, 34>>, <<9, 18>>, <<9, 12>>, <<10, 10>>, <<10, 8>>, <<11, 7>>,
        <<12, 6>>, <<12, 6>>, <<13, 5>>, <<14, 5>>, <<14, 5>>, <<15, 5>>,
        <<16, 4>>, <<16, 4>>, <<17, 4>>, <<18, 4>>, <<19, 4>>, <<20, 4>>,
        <<20, 4>>, <<21, 4>>, <<22, 4>>, <<23, 4>>, <<24, 4>>, <<25, 4>>,
        <<26, 4>>, <<27, 4>>, <<27, 4>>, <<28, 4>>, <<29, 4>>, <<30, 4>>,
        <<31, 4>>, <<32, 4>>, <<33, 4>>, <<34, 4>>, <<35, 4>>, <<36, 4>> >>,
     << <<10, 52>>, <<11, 27>>, <<11, 19>>, <<12, 15>>, <<12, 12>>,
        <<13, 11>>, <<13, 9>>, <<14, 9>>, <<15, 8>>, <<15, 7>>, <<16, 7>>,
        <<17, 7>>, <<17, 6>>, <<18, 6>>, <<19, 6>>, <<20, 6>>, <<20, 6>>,
        <<21, 5>>, <<22, 5>>, <<23, 5>>, <<23, 5>>, <<24, 5>>, <<25, 5>>,
        <<26, 5>>, <<27, 5>>, <<28, 5>>, <<28, 5>>, <<29, 5>>, <<30, 5>>,
        <<31, 5>>, <<32, 5>>, <<33, 5>>, <<34, 5>>, <<35, 5>>, <<36, 5>>,
        <<37, 5>> >>,
     << <<12, 75>>, <<13, 39>>, <<13, 27>>, <<14, 21>>, <<14, 17>>,
        <<15, 15>>, <<15, 13>>, <<16, 12>>, <<17, 11>>, <<17, 10>>,
        <<18, 9>>, <<18, 9>>, <<19, 9>>, <<20, 8>>, <<21, 8>>, <<21, 8>>,
        <<22, 7>>, <<23, 7>>, <<23, 7>>, <<24, 7>>, <<25, 7>>, <<26, 7>>,
        <<26, 7>>, <<27, 6>>, <<28, 6>>, <<29, 6>>, <<30, 6>>, <<31, 6>>,
        <<31, 6>>, <<32, 6>>, <<33, 6>>, <<34, 6>>, <<35, 6>>, <<36, 6>>,
        <<37, 6>>, <<37, 6>> >>,
     << <<14, 101>>, <<15, 52>>, <<15, 36>>, <<16, 28>>, <<16, 23>>,
        <<17, 20>>, <<17, 17>>, <<18, 16>>, <<18, 14>>, <<19, 13>>,
        <<20, 12>>, <<20, 12>>, <<21, 11>>, <<22, 11>>, <<22, 10>>,
        <<23, 10>>, <<24, 9>>, <<24, 9>>, <<25, 9>>, <<26, 9>>, <<27, 9>>,
        <<27, 8>>, <<28, 8>>, <<29, 8>>, <<30, 8>>, <<30, 8>>, <<31, 8>>,
        <<32, 8>>, <<33, 8>>, <<33, 7>>, <<34, 7>>, <<35, 7>>, <<36, 7>>,
        <<37, 7>>, <<38, 7>>, <<38, 7>> >>,
     << <<16, 132>>, <<17, 68>>, <<17, 46>>, <<18, 36>>, <<18, 29>>,
        <<19, 25>>, <<19, 22>>, <<20, 20>>, <<20, 18>>, <<21, 17>>,
        <<22, 16>>, <<22, 15>>, <<23, 14>>, <<24, 13>>, <<24, 13>>,
        <<25, 12>>, <<25, 12>>, <<26, 11>>, <<27, 11>>, <<28, 11>>,
        <<28, 10>>, <<29, 10>>, <<30, 10>>, <<30, 10>>, <<31, 10>>,
        <<32, 9>>, <<33, 9>>, <<33, 9>>, <<34, 9>>, <<35, 9>>, <<36, 9>>,
        <<37, 9>>, <<37, 9>>, <<38, 9>>, <<39, 9>>, <<40, 8>> >>,
     << <<18, 166>>, <<19, 85>>, <<19, 58>>, <<20, 45>>, <<20, 37>>,
        <<21, 31>>, <<21, 27>>, <<22, 25>>, <<22, 22>>, <<23, 21>>,
        <<24, 19>>, <<24, 18>>, <<25, 17>>, <<25, 16>>, <<26, 15>>,
        <<27, 15>>, <<27, 14>>, <<28, 14>>, <<29, 13>>, <<29, 13>>,
        <<30, 13>>, <<31, 12>>, <<31, 12>>, <<32, 12>>, <<33, 11>>,
        <<34, 11>>, <<34, 11>>, <<35, 11>>, <<36, 11>>, <<36, 11>>,
        <<37, 10>>, <<38, 10>>, <<39, 10>>, <<40, 10>>, <<40, 10>>,
        <<41, 10>> >>,
     << <<20, 205>>, <<21, 105>>, <<21, 71>>, <<22, 55>>, <<22, 45>>,
        <<23, 38>>, <<23, 33>>, <<24, 30>>, <<24, 27>>, <<25, 25>>,
        <<26, 23>>, <<26, 22>>, <<27, 20>>, <<27, 19>>, <<28, 18>>,
        <<29, 18>>, <<29, 17>>, <<30, 16>>, <<30, 16>>, <<31, 15>>,
        <<32, 15>>, <<32, 14>>, <<33, 14>>, <<34, 14>>, <<35, 14>>,
        <<35, 13>>, <<36, 13>>, <<37, 13>>, <<37, 13>>, <<38, 12>>,
        <<39, 12>>, <<40, 12>>, <<40, 12>>, <<41, 12>>, <<42, 12>>,
        <<43, 11>> >>,
     << <<22, 247>>, <<23, 126>>, <<23, 86>>, <<24, 66>>, <<24, 54>>,
        <<25, 46>>, <<25, 40>>, <<26, 36>>, <<26, 32>>, <<27, 30>>,
        <<27, 27>>, <<28, 26>>, <<29, 24>>, <<29, 23>>, <<30, 22>>,
        <<30, 21>>, <<31, 20>>, <<32, 19>>, <<32, 19>>, <<33, 18>>,
        <<34, 17>>, <<34, 17>>, <<35, 16>>, <<36, 16>>, <<36, 16>>,
        <<37, 15>>, <<38, 15>>, <<38, 15>>, <<39, 15>>, <<40, 14>>,
        <<41, 14>>, <<41, 14>>, <<42, 14>>, <<43, 13>>, <<43, 13>>,
        <<44, 13>> >>,
     << <<24, 294>>, <<25, 150>>, <<25, 102>>, <<26, 78>>, <<26, 63>>,
        <<27, 54>>, <<27, 47>>, <<28, 42>>, <<28, 38>>, <<29, 35>>,
        <<29, 32>>, <<30, 30>>, <<31, 28>>, <<31, 27>>, <<32, 25>>,
        <<32, 24>>, <<33, 23>>, <<34, 22>>, <<34, 21>>, <<35, 21>>,
        <<36, 20>>, <<36, 19>>, <<37, 19>>, <<37, 18>>, <<38, 18>>,
        <<39, 18>>, <<39, 17>>, <<40, 17>>, <<41, 17>>, <<42, 16>>,
        <<42, 16>>, <<43, 16>>, <<44, 16>>, <<44, 15>>, <<45, 15>>,
        <<46, 15>> >>
   >>]

_scale_heap_sample(sample_rate, stat) ==
  IF stat.count = 0 \/ stat.size = 0 THEN stat
  ELSE IF sample_rate <= 1 THEN stat
  ELSE LET scaled == ScaleTable[sample_rate][stat.count][stat.size]
       IN [stat EXCEPT !.size = scaled[1], !.count = scaled[2]]

_scale_heap_samples(sample_rate, stats) ==
  [i \in 1..Len(stats) |->
     [key |-> stats[i].key,
      stat |-> _scale_heap_sample(sample_rate, stats[i].stat)]]

(***************************************************************************)
(* _group_by.  stats is the dict of the Statistic per key, tracebacks the  *)
(* memo from a raw traceback (or raw frame) to the key built for it.       *)
(***************************************************************************)
\* stats_add as it would be if a repeated key overwrote the accumulated size
\* (stat.size = size) instead of adding to it; C2_GroupingConservation tells
\* the two apart.
stats_add_overwrite(stats, traceback, size) ==
  IF dict_get(stats, traceback) # {}
  THEN [i \in 1..Len(stats) |->
          IF stats[i].key = traceback
          THEN [key |-> traceback,
                stat |-> [stats[i].stat EXCEPT !.size = size, !.count = @ + 1]]
          ELSE stats[i]]
  ELSE Append(stats, [key |-> traceback, stat |-> Statistic(traceback, size, 1)])

stats_add(stats, traceback, size) ==
  IF dict_get(stats, traceback) # {}
  THEN [i \in 1..Len(stats) |->
          IF stats[i].key = traceback
          THEN [key |-> traceback,
                stat |-> [stats[i].stat EXCEPT !.size = @ + size,
                                               !.count = @ + 1]]
          ELSE stats[i]]
  ELSE Append(stats, [key |-> traceback, stat |-> Statistic(traceback, size, 1)])

memo_put(tracebacks, k, traceback) ==
  [x \in DOMAIN tracebacks \cup {k} |->
     IF x = k THEN traceback ELSE tracebacks[x]]

RECURSIVE group_traces(_, _, _, _)
group_traces(traces, key_type, stats, tracebacks) ==
  IF traces = <<>> THEN Return(stats)
  ELSE LET size == Head(traces)[1]
           trace_traceback == Head(traces)[2]
       IN IF trace_traceback \in DOMAIN tracebacks
          THEN group_traces(Tail(traces), key_type,
                            stats_add(stats, tracebacks[trace_traceback], size),
                            tracebacks)
          ELSE IF key_type = "filename" /\ trace_traceback = <<>>
          THEN Raise("IndexError")
          ELSE LET frames ==
                     IF key_type = "traceback" THEN trace_traceback
                     ELSE IF key_type = "lineno"
                     THEN SubSeq(trace_traceback, 1,
                                 IF Len(trace_traceback) < 1
                                 THEN Len(trace_traceback) ELSE 1)
                     ELSE << <<<<>>, trace_traceback[1][2], 0, 0>> >>
                   traceback == Traceback(frames)
               IN group_traces(Tail(traces), key_type,
                               stats_add(stats, traceback, size),
                               memo_put(tracebacks, trace_traceback, traceback))

\* group_frames as it would be if the cumulative loop stopped after the first
\* frame of the raw traceback; C6_CumulativeSupersetNonEmpty tells the two
\* apart.
group_frames_first_only(trace_traceback, size, key_type, acc) ==
  IF trace_traceback = <<>> THEN acc
  ELSE LET frame == Head(trace_traceback)
           traceback == IF frame \in DOMAIN acc.tracebacks
                        THEN acc.tracebacks[frame]
                        ELSE Traceback(IF key_type = "lineno" THEN <<frame>>
                                       ELSE << <<<<>>, frame[2], 0, 0>> >>)
       IN [stats |-> stats_add(acc.stats, traceback, size),
           tracebacks |-> memo_put(acc.tracebacks, frame, traceback)]

RECURSIVE group_frames(_, _, _, _)
group_frames(trace_traceback, size, key_type, acc) ==
  IF trace_traceback = <<>> THEN acc
  ELSE LET frame == Head(trace_traceback)
       IN IF frame \in DOMAIN acc.tracebacks
          THEN group_frames(Tail(trace_traceback), size, key_type,
                 [stats |-> stats_add(acc.stats, acc.tracebacks[frame], size),
                  tracebacks |-> acc.tracebacks])
          ELSE LET frames == IF key_type = "lineno" THEN <<frame>>
                             ELSE << <<<<>>, frame[2], 0, 0>> >>
                   traceback == Traceback(frames)
               IN group_frames(Tail(trace_traceback), size, key_type,
                    [stats |-> stats_add(acc.stats, traceback, size),
                     tracebacks |-> memo_put(acc.tracebacks, frame, traceback)])

RECURSIVE group_traces_cumulative(_, _, _)
group_traces_cumulative(traces, key_type, acc) ==
  IF traces = <<>> THEN Return(acc.stats)
  ELSE group_traces_cumulative(
         Tail(traces), key_type,
         group_frames(Head(traces)[2], Head(traces)[1], key_type, acc))

_group_by(self, key_type, cumulative) ==
  IF key_type \notin {"traceback", "filename", "lineno"}
  THEN Raise("ValueError")
  ELSE IF cumulative /\ key_type \notin {"lineno", "filename"}
  THEN Raise("ValueError")
  ELSE LET stats == IF ~cumulative
                    THEN group_traces(self.traces, key_type, <<>>, <<>>)
                    ELSE group_traces_cumulative(
                           self.traces, key_type,
                           [stats |-> <<>>, tracebacks |-> <<>>])
       IN IF stats.raised THEN stats
          ELSE Return(_scale_heap_samples(self.sample_rate, stats.value))

dict_values(d) == [i \in 1..Len(d) |-> d[i].stat]

statistics(heap, self, key_type, cumulative) ==
  LET grouped == _group_by(heap[self], key_type, cumulative)
  IN [heap |-> heap,
      ret |-> IF grouped.raised THEN grouped
              ELSE Return(sort_statistics(dict_values(grouped.value)))]

compare_to(heap, self, old_snapshot, key_type, cumulative) ==
  LET new_group == _group_by(heap[self], key_type, cumulative)
      old_group == _group_by(heap[old_snapshot], key_type, cumulative)
  IN [heap |-> heap,
      ret |-> IF new_group.raised THEN new_group
              ELSE IF old_group.raised THEN old_group
              ELSE Return(sort_statistic_diffs(
                     _compare_grouped_stats(old_group.value, new_group.value)))]

(***************************************************************************)
(* Inputs.  Raw tracebacks list the oldest frame first and the most recent *)
(* frame last: Traceback reverses them into most-recent-first order.       *)
(***************************************************************************)
FrameF == << <<"f">>, <<"a", ".", "p", "y">>, 1, 10 >>

FrameH == << <<"h">>, <<"b", ".", "p", "y", "c">>, 5, 20 >>

Frames == {FrameF, FrameH}

Sizes == {1, 2}

SeqsUpTo(S, n) == UNION { [1..k -> S] : k \in 0..n }

RawTraces(limit) == Sizes \X SeqsUpTo(Frames, limit)

SampleRates == {0, 2}

Patterns == { <<"b", ".", "p", "y">>, <<"*", ".", "p", "y", "c">> }

Linenos == { <<>>, <<10>> }

Filters ==
  { Filter(inclusive, pattern, lineno, all_frames) :
      inclusive \in BOOLEAN, pattern \in Patterns, lineno \in Linenos,
      all_frames \in BOOLEAN }

NotIterable == [type |-> "NoneType", items |-> <<>>]

ListOf(items) == [type |-> "list", items |-> items]

KeyTypes == {"traceback", "filename", "lineno", "size"}

\* The two-snapshot specification draws its snapshots from three traces and
\* its filter lists from three lists.
PairTraces ==
  { <<1, <<FrameF, FrameH>>>>, <<2, <<FrameF>>>>, <<1, <<>>>> }

PairSnapshots ==
  { Snapshot(traces, MaxDepth, rate) :
      traces \in UNION { [1..n -> PairTraces] : n \in 0..MaxTraces },
      rate \in SampleRates }

PairFiltersArgs ==
  { ListOf(<<>>),
    ListOf(<<Filter(TRUE, <<"b", ".", "p", "y">>, <<>>, FALSE)>>),
    ListOf(<<Filter(FALSE, <<"*", ".", "p", "y", "c">>, <<10>>, TRUE)>>),
    NotIterable }

(***************************************************************************)
(* Calls.  A call is made when the result of the previous one has been     *)
(* consumed; its outcome stays in result until the caller consumes it.     *)
(***************************************************************************)
NoCall == [op |-> "none"]

NoResult == Return(<<>>)

FilterTraces(self, filters) ==
  LET out == filter_traces(snapshots, self, filters)
  IN /\ call = NoCall
     /\ snapshots' = out.heap
     /\ result' = out.ret
     /\ call' = [op |-> "filter_traces", self |-> self, filters |-> filters]

Statistics(self, key_type, cumulative) ==
  LET out == statistics(snapshots, self, key_type, cumulative)
  IN /\ call = NoCall
     /\ snapshots' = out.heap
     /\ result' = out.ret
     /\ call' = [op |-> "statistics", self |-> self, key_type |-> key_type,
                 cumulative |-> cumulative]

CompareTo(self, old_snapshot, key_type, cumulative) ==
  LET out == compare_to(snapshots, self, old_snapshot, key_type, cumulative)
  IN /\ call = NoCall
     /\ snapshots' = out.heap
     /\ result' = out.ret
     /\ call' = [op |-> "compare_to", self |-> self,
                 old_snapshot |-> old_snapshot, key_type |-> key_type,
                 cumulative |-> cumulative]

Consume ==
  /\ call # NoCall
  /\ call' = NoCall
  /\ result' = NoResult
  /\ UNCHANGED snapshots

CallFilterTraces ==
  \E self \in DOMAIN snapshots :
    \/ \E n \in 0..MaxFilters : \E items \in [1..n -> Filters] :
         FilterTraces(self, ListOf(items))
    \/ FilterTraces(self, NotIterable)

CallStatistics ==
  \E self \in DOMAIN snapshots, key_type \in KeyTypes, cumulative \in BOOLEAN :
    Statistics(self, key_type, cumulative)

CallPairFilterTraces ==
  \E self \in DOMAIN snapshots, filters \in PairFiltersArgs :
    FilterTraces(self, filters)

CallCompareTo ==
  \E self \in DOMAIN snapshots, old_snapshot \in DOMAIN snapshots,
     key_type \in KeyTypes, cumulative \in BOOLEAN :
    CompareTo(self, old_snapshot, key_type, cumulative)

\* One snapshot, filter_traces with every filter list.
\* The snapshot is as the capture builds it: no traceback is longer than
\* traceback_limit.
InitOne ==
  /\ \E limit \in 0..MaxDepth, n \in 0..MaxTraces :
       \E traces \in [1..n -> RawTraces(limit)], rate \in SampleRates :
         snapshots = <<Snapshot(traces, limit, rate)>>
  /\ call = NoCall
  /\ result = NoResult

NextFilter ==
  \/ CallFilterTraces
  \/ Consume

SpecFilter == InitOne /\ [][NextFilter]_vars

\* One snapshot, statistics with every key_type and cumulative.
NextStatistics ==
  \/ CallStatistics
  \/ Consume

SpecStatistics == InitOne /\ [][NextStatistics]_vars

\* Two snapshots, every operation.
Init ==
  /\ snapshots \in PairSnapshots \X PairSnapshots
  /\ call = NoCall
  /\ result = NoResult

Next ==
  \/ CallPairFilterTraces
  \/ CallStatistics
  \/ CallCompareTo
  \/ Consume

Spec == Init /\ [][Next]_vars

(***************************************************************************)
(* Vocabulary of the properties.                                           *)
(***************************************************************************)
Range(s) == { s[i] : i \in DOMAIN s }

Occurrences(x, s) == Cardinality({ i \in DOMAIN s : s[i] = x })

RECURSIVE SumSeq(_)
SumSeq(s) == IF s = <<>> THEN 0 ELSE Head(s) + SumSeq(Tail(s))

SumOfSizes(items) == SumSeq([i \in 1..Len(items) |-> items[i].size])

SumOfCounts(items) == SumSeq([i \in 1..Len(items) |-> items[i].count])

SumOfTraceSizes(traces) == SumSeq([i \in 1..Len(traces) |-> traces[i][1]])

\* The frame at index 0 of the Traceback that Trace.traceback exposes.
TopFrame(trace) == Traceback(trace[2])[1]

\* The (filename pattern, lineno) rule of a filter, applied to one frame.
FrameRule(f, frame) ==
  /\ fnmatch(_normalize_filename(frame[2]), f._filename_pattern)
  /\ (f.lineno = <<>> \/ frame[4] = f.lineno[1])

AllNonEmpty(traces) == \A i \in 1..Len(traces) : Len(traces[i][2]) >= 1

ValidGrouping(key_type, cumulative) ==
  /\ key_type \in {"traceback", "filename", "lineno"}
  /\ ~(cumulative /\ key_type = "traceback")

IsFilterCall == call.op = "filter_traces"

IsStatisticsCall == call.op = "statistics"

IsCompareCall == call.op = "compare_to"

(***************************************************************************)
(* C1.  filter_traces with a non-empty filter list keeps a trace iff (the  *)
(* list has no inclusive filter or some inclusive filter selects its       *)
(* traceback) and no exclusive filter excludes it, a filter with           *)
(* all_frames matching on any frame and one without on a single frame      *)
(* (the frame the source tests, index 0 of the raw traceback); kept traces *)
(* keep their order and multiplicity.                                      *)
(***************************************************************************)
ClaimedMatch(f, traceback) ==
  IF f.all_frames
  THEN \E i \in 1..Len(traceback) : FrameRule(f, traceback[i])
  ELSE traceback # <<>> /\ FrameRule(f, traceback[1])

ClaimedKeep(filters, trace) ==
  /\ \/ \A i \in 1..Len(filters) : ~filters[i].inclusive
     \/ \E i \in 1..Len(filters) :
          filters[i].inclusive /\ ClaimedMatch(filters[i], trace[2])
  /\ ~\E i \in 1..Len(filters) :
        ~filters[i].inclusive /\ ClaimedMatch(filters[i], trace[2])

ClaimedFilterResult ==
  SelectSeq(snapshots[call.self].traces,
            LAMBDA trace : ClaimedKeep(call.filters.items, trace))

C1_FilterTracesKeepsSelected ==
  (IsFilterCall /\ call.filters.type = "list" /\ call.filters.items # <<>>)
  => /\ ~result.raised
     /\ result.value.traces = ClaimedFilterResult

\* What remains of C1 on the calls that return: the returned Snapshot holds
\* exactly the claimed traces, with the receiver's limit and rate.
C1_WhenItReturns ==
  (IsFilterCall /\ call.filters.type = "list" /\ call.filters.items # <<>>
   /\ ~result.raised)
  => /\ result.value.traces = ClaimedFilterResult
     /\ result.value.traceback_limit = snapshots[call.self].traceback_limit
     /\ result.value.sample_rate = snapshots[call.self].sample_rate

(***************************************************************************)
(* C2.  With sample_rate <= 1, the Statistics of statistics("traceback")   *)
(* have sizes that sum to the sum of the trace sizes and counts that sum   *)
(* to the number of traces, and there is exactly one Statistic per         *)
(* distinct traceback among the traces.                                    *)
(***************************************************************************)
C2_Case ==
  /\ IsStatisticsCall
  /\ call.key_type = "traceback"
  /\ ~call.cumulative
  /\ snapshots[call.self].sample_rate <= 1

C2_GroupingConservation ==
  C2_Case
  => LET traces == snapshots[call.self].traces
     IN /\ ~result.raised
        /\ SumOfSizes(result.value) = SumOfTraceSizes(traces)
        /\ SumOfCounts(result.value) = Len(traces)
        /\ { result.value[i].traceback : i \in 1..Len(result.value) }
             = { Traceback(traces[i][2]) : i \in 1..Len(traces) }
        /\ Len(result.value)
             = Cardinality({ traces[i][2] : i \in 1..Len(traces) })

\* Two traces with the same traceback and different sizes were merged.
C2_Witness ==
  /\ C2_Case
  /\ Len(snapshots[call.self].traces) = 2
  /\ snapshots[call.self].traces[1][2] = snapshots[call.self].traces[2][2]
  /\ snapshots[call.self].traces[1][1] # snapshots[call.self].traces[2][1]
  /\ Len(snapshots[call.self].traces[1][2]) = 2
  /\ Len(result.value) = 1

(***************************************************************************)
(* C3.  compare_to with a valid (key_type, cumulative) returns exactly one *)
(* StatisticDiff per key of the union of the two groupings: new values and *)
(* new - old diffs for a key in both, diffs equal to size and count for a  *)
(* key only in new, size 0, count 0 and negated old values for a key only  *)
(* in old.                                                                 *)
(***************************************************************************)
GroupKeys(group) == { group[i].key : i \in 1..Len(group) }

GroupStat(group, k) == group[CHOOSE i \in dict_get(group, k) : TRUE].stat

ClaimedDiff(new_group, old_group, k) ==
  IF k \in GroupKeys(new_group) /\ k \in GroupKeys(old_group)
  THEN StatisticDiff(k, GroupStat(new_group, k).size,
                     GroupStat(new_group, k).size - GroupStat(old_group, k).size,
                     GroupStat(new_group, k).count,
                     GroupStat(new_group, k).count
                       - GroupStat(old_group, k).count)
  ELSE IF k \in GroupKeys(new_group)
  THEN StatisticDiff(k, GroupStat(new_group, k).size,
                     GroupStat(new_group, k).size,
                     GroupStat(new_group, k).count,
                     GroupStat(new_group, k).count)
  ELSE StatisticDiff(k, 0, -GroupStat(old_group, k).size,
                     0, -GroupStat(old_group, k).count)

C3_Case ==
  IsCompareCall /\ ValidGrouping(call.key_type, call.cumulative)

NewGroup ==
  _group_by(snapshots[call.self], call.key_type, call.cumulative).value

OldGroup ==
  _group_by(snapshots[call.old_snapshot], call.key_type, call.cumulative).value

ClaimedCompareResult ==
  /\ Len(result.value) = Cardinality(GroupKeys(NewGroup) \cup GroupKeys(OldGroup))
  /\ Range(result.value)
       = { ClaimedDiff(NewGroup, OldGroup, k) :
             k \in GroupKeys(NewGroup) \cup GroupKeys(OldGroup) }

C3_CompareToUnionOfKeys ==
  C3_Case => (~result.raised /\ ClaimedCompareResult)

\* What remains of C3 on the calls that return.
C3_WhenItReturns ==
  (C3_Case /\ ~result.raised) => ClaimedCompareResult

(***************************************************************************)
(* C4.  In non-cumulative grouping every trace with a traceback of depth   *)
(* >= 1 is keyed by its most recent frame, the frame at index 0 of         *)
(* Trace.traceback: for "lineno" the one-frame traceback of that frame,    *)
(* for "filename" the one-frame traceback ("", its filename, 0, 0).        *)
(***************************************************************************)
ClaimedKey(key_type, trace) ==
  IF key_type = "lineno" THEN <<TopFrame(trace)>>
  ELSE << <<<<>>, TopFrame(trace)[2], 0, 0>> >>

C4_Case ==
  /\ IsStatisticsCall
  /\ call.key_type \in {"lineno", "filename"}
  /\ ~call.cumulative
  /\ AllNonEmpty(snapshots[call.self].traces)

C4_KeyedByTopFrame ==
  C4_Case
  => LET traces == snapshots[call.self].traces
     IN /\ ~result.raised
        /\ { result.value[i].traceback : i \in 1..Len(result.value) }
             = { ClaimedKey(call.key_type, traces[i]) : i \in 1..Len(traces) }

\* What the source does instead: the key is built from index 0 of the raw
\* traceback, which is the oldest frame.
SourceKey(key_type, trace) ==
  IF key_type = "lineno" THEN <<trace[2][1]>>
  ELSE << <<<<>>, trace[2][1][2], 0, 0>> >>

C4_KeyedByOldestFrame ==
  C4_Case
  => LET traces == snapshots[call.self].traces
     IN /\ ~result.raised
        /\ { result.value[i].traceback : i \in 1..Len(result.value) }
             = { SourceKey(call.key_type, traces[i]) : i \in 1..Len(traces) }

(***************************************************************************)
(* C5.  With a single all_frames=false filter, filter_traces keeps a trace *)
(* according to the most recent frame only, the frame at index 0 of        *)
(* Trace.traceback: an inclusive filter keeps it iff that frame matches    *)
(* the (pattern, lineno) rule, an exclusive filter iff it does not.        *)
(***************************************************************************)
C5_Case ==
  /\ IsFilterCall
  /\ call.filters.type = "list"
  /\ Len(call.filters.items) = 1
  /\ ~call.filters.items[1].all_frames
  /\ AllNonEmpty(snapshots[call.self].traces)

C5_SingleFrameIsTopFrame ==
  C5_Case
  => /\ ~result.raised
     /\ result.value.traces
          = SelectSeq(snapshots[call.self].traces,
                      LAMBDA trace :
                        FrameRule(call.filters.items[1], TopFrame(trace))
                          = call.filters.items[1].inclusive)

\* What the source does instead: it tests index 0 of the raw traceback.
C5_SingleFrameIsOldestFrame ==
  C5_Case
  => /\ ~result.raised
     /\ result.value.traces
          = SelectSeq(snapshots[call.self].traces,
                      LAMBDA trace :
                        FrameRule(call.filters.items[1], trace[2][1])
                          = call.filters.items[1].inclusive)

(***************************************************************************)
(* C6.  With sample_rate <= 1 and tracebacks of any length from 0 to       *)
(* traceback_limit, the counts of statistics("lineno", cumulative=True)    *)
(* sum to at least the counts of statistics("lineno", cumulative=False),   *)
(* and the two sums are equal only when every traceback has depth 1.       *)
(***************************************************************************)
C6_Case ==
  /\ IsStatisticsCall
  /\ call.key_type = "lineno"
  /\ call.cumulative
  /\ snapshots[call.self].sample_rate <= 1

NonCumulativeCounts ==
  SumOfCounts(statistics(snapshots, call.self, "lineno", FALSE).ret.value)

ClaimedSuperset ==
  /\ ~result.raised
  /\ SumOfCounts(result.value) >= NonCumulativeCounts
  /\ SumOfCounts(result.value) = NonCumulativeCounts
       => \A i \in 1..Len(snapshots[call.self].traces) :
            Len(snapshots[call.self].traces[i][2]) = 1

C6_CumulativeSuperset == C6_Case => ClaimedSuperset

\* C6 as amended: the same, for snapshots whose tracebacks all have
\* length >= 1.
C6_CumulativeSupersetNonEmpty ==
  (C6_Case /\ AllNonEmpty(snapshots[call.self].traces)) => ClaimedSuperset

\* A trace of depth 2 beside a trace of depth 1: the cumulative sum is larger.
C6_Witness ==
  /\ C6_Case
  /\ AllNonEmpty(snapshots[call.self].traces)
  /\ \E i, j \in 1..Len(snapshots[call.self].traces) :
       /\ Len(snapshots[call.self].traces[i][2]) = 2
       /\ Len(snapshots[call.self].traces[j][2]) = 1
  /\ SumOfCounts(result.value) > NonCumulativeCounts

(***************************************************************************)
(* C7.  For a fixed (pattern, lineno, all_frames), filter_traces with the  *)
(* inclusive filter and filter_traces with the exclusive filter partition  *)
(* the traces of the snapshot: every trace, counted with multiplicity, is  *)
(* in exactly one of the two results, and neither holds another trace.     *)
(***************************************************************************)
C7_Case ==
  /\ IsFilterCall
  /\ call.filters.type = "list"
  /\ Len(call.filters.items) = 1

ComplementResult ==
  filter_traces(snapshots, call.self,
                ListOf(<<[call.filters.items[1] EXCEPT !.inclusive = ~@]>>)).ret

ClaimedPartition ==
  LET traces == snapshots[call.self].traces
      one == result.value.traces
      other == ComplementResult.value.traces
  IN \A x \in Range(traces) \cup Range(one) \cup Range(other) :
       Occurrences(x, one) + Occurrences(x, other) = Occurrences(x, traces)

C7_InclusiveExclusivePartition ==
  C7_Case => (~result.raised /\ ~ComplementResult.raised /\ ClaimedPartition)

\* What remains of C7 on the calls that return.
C7_WhenItReturns ==
  (C7_Case /\ ~result.raised /\ ~ComplementResult.raised) => ClaimedPartition

(***************************************************************************)
(* C8.  A.compare_to(B) and B.compare_to(A) hold the same keys; the diffs  *)
(* of a key in both groupings are negated; a key only in A has diffs equal *)
(* to its size and count in A.compare_to(B), and size 0, count 0 and the   *)
(* negated diffs in B.compare_to(A).                                       *)
(***************************************************************************)
ReverseResult ==
  compare_to(snapshots, call.old_snapshot, call.self, call.key_type,
             call.cumulative).ret

ClaimedAntisymmetry ==
  LET forward == result.value
      backward == ReverseResult.value
  IN /\ { forward[i].traceback : i \in 1..Len(forward) }
          = { backward[j].traceback : j \in 1..Len(backward) }
     /\ \A i \in 1..Len(forward), j \in 1..Len(backward) :
          forward[i].traceback = backward[j].traceback
          => /\ forward[i].size_diff = -backward[j].size_diff
             /\ forward[i].count_diff = -backward[j].count_diff
             /\ (forward[i].traceback \notin GroupKeys(OldGroup))
                  => /\ forward[i].size_diff = forward[i].size
                     /\ forward[i].count_diff = forward[i].count
                     /\ backward[j].size = 0
                     /\ backward[j].count = 0
             /\ (forward[i].traceback \notin GroupKeys(NewGroup))
                  => /\ backward[j].size_diff = backward[j].size
                     /\ backward[j].count_diff = backward[j].count
                     /\ forward[i].size = 0
                     /\ forward[i].count = 0

C8_DiffAntisymmetry ==
  C3_Case => (~result.raised /\ ~ReverseResult.raised /\ ClaimedAntisymmetry)

\* What remains of C8 on the calls that return.
C8_WhenItReturns ==
  (C3_Case /\ ~result.raised /\ ~ReverseResult.raised) => ClaimedAntisymmetry

(***************************************************************************)
(* C9.  No call mutates a Snapshot: across every filter_traces, statistics *)
(* and compare_to call the receiver and the old snapshot keep their trace  *)
(* sequence, traceback_limit and sample_rate, so that repeating the call   *)
(* on the snapshots it leaves returns what it returned.                    *)
(***************************************************************************)
Replay(heap, c) ==
  CASE c.op = "filter_traces" -> filter_traces(heap, c.self, c.filters).ret
    [] c.op = "statistics" ->
         statistics(heap, c.self, c.key_type, c.cumulative).ret
    [] c.op = "compare_to" ->
         compare_to(heap, c.self, c.old_snapshot, c.key_type, c.cumulative).ret

C9_SnapshotsNeverMutated ==
  [][/\ snapshots' = snapshots
     /\ (call' # NoCall) => (Replay(snapshots', call') = result')]_vars

\* compare_to has run under sampling correction and matched a key of the old
\* grouping (a diff that is not the whole size).
C9_Witness ==
  /\ IsCompareCall
  /\ call.self # call.old_snapshot
  /\ snapshots[call.self].sample_rate > 1
  /\ snapshots[call.old_snapshot].sample_rate > 1
  /\ ~result.raised
  /\ \E i \in 1..Len(result.value) :
       /\ result.value[i].size > 0
       /\ result.value[i].size_diff # result.value[i].size
       /\ result.value[i].size_diff # 0

(***************************************************************************)
(* C10.  On every Snapshot the data model allows, a zero-length traceback  *)
(* included, filter_traces, statistics and compare_to end in an error only *)
(* for an invalid argument: an unknown key_type, cumulative with           *)
(* key_type "traceback", or filters that is not iterable.                  *)
(***************************************************************************)
InvalidArgument(c) ==
  IF c.op = "filter_traces" THEN c.filters.type # "list"
  ELSE ~ValidGrouping(c.key_type, c.cumulative)

C10_OnlyInvalidArgumentErrors ==
  (call # NoCall /\ result.raised) => InvalidArgument(call)

\* What remains of C10: a call with valid arguments raises only IndexError,
\* and only when a traceback of the snapshots it reads has length 0.
C10_RaisesOnlyOnEmptyTraceback ==
  (call # NoCall /\ result.raised /\ ~InvalidArgument(call))
  => /\ result.exc = "IndexError"
     /\ \E i \in DOMAIN snapshots : ~AllNonEmpty(snapshots[i].traces)

====
